---- MODULE Spec2Model ----
\* Model of the three Azure "ensure state" modules of the repository:
\*   src/azure_rm_resourcegroup.py, src/azure_rm_networkinterface.py,
\*   src/azure_rm_virtualmachine.py
\* One behaviour follows one module (chosen in Init) through up to MaxRuns
\* successive invocations of exec_module_impl with the same keyword arguments
\* against one provider state.  Python's None is the string "None"; tag
\* dictionaries are the strings of TagValues.
EXTENDS Integers, Sequences, FiniteSets, TLC

\* ---------------------------------------------------------------- bounds
\* number of successive invocations with the same arguments
MaxRuns == 2
\* number of network interfaces known to the virtual machine module
MaxNics == 2

\* ------------------------------------------------------- value domains
TagValues == {"None", "{}", "{a:1}", "{a:2}"}
Locations == {"eastus2", "westus"}

\* Python truthiness of a value (None, the empty dict and "" are false)
Truthy(v) == v \notin {"None", "{}", ""}

\* the content of self.results['results'] : dict(), 'Deleted' or a dict
\* (resources other than the target are named by small integers, NoId = none)
NoId == 0
EmptyBody == [location |-> "None", tags |-> "None", private_ip_address |-> "None",
              private_ip_allocation_method |-> "None", public_ip_address |-> NoId,
              subnet |-> NoId, network_security_group |-> NoId,
              public_ip_address_id |-> NoId, network_interfaces |-> {}]
EmptyResult == [repr |-> "{}", body |-> EmptyBody]
DeletedResult == [repr |-> "Deleted", body |-> EmptyBody]
DictResult(b) == [repr |-> "dict", body |-> b]

\* one provider call as recorded in the call log of an invocation
\* (name 0 is the target of the invocation)
Call(op, kind, name) == [op |-> op, kind |-> kind, name |-> name]
MutatingOps == {"create_or_update", "delete"}
Mutations(log) == {i \in 1..Len(log) : log[i].op \in MutatingOps}

VARIABLES
  module,          \* which of the three modules this behaviour runs
  pc,              \* position of the current invocation
  args,            \* kwargs of the invocation (self.<key> after setattr)
  runs,            \* number of invocations started
  results,         \* self.results : changed, check_mode, results
  calls,           \* provider calls issued by the current invocation
  fetched,         \* outcome of the get of the target resource
  target,          \* local rg / nic / vm : the fetched object, or none
  observed,        \* what the get of the target returned (kept to the end)
  decided,         \* self.results['changed'] has been assigned
  prev,            \* changed flag and outcome of the previous invocation
  resource_group,  \* provider: the resource group
  network_interface, \* provider: the network interface the NIC module manages
  subnets,         \* provider: ids of the existing subnets
  security_groups, \* provider: ids of the existing network security groups
  public_ips,      \* provider: ids of the existing public IP addresses
  virtual_machine, \* provider: the virtual machine the VM module manages
  nics,            \* provider: the network interfaces a machine can attach
  vm_delete_pending, \* provider: a machine delete was accepted, not finished
  vm_name_bound,   \* whether the free name vm of delete_vm is bound
  image_versions,  \* provider: the image versions listed for the sku, in list order
  storage_account, \* provider: whether the named storage account exists
  nic_names,       \* delete_vm: captured interface names
  pip_names,       \* delete_vm: captured public IP names
  cursor           \* delete_vm: position in the list being deleted

inv == <<pc, args, runs, results, calls, fetched, target, observed, decided, prev>>
nicProv == <<network_interface, subnets, security_groups>>
vmProv == <<virtual_machine, nics, vm_delete_pending, vm_name_bound,
           image_versions, storage_account>>
vmLocals == <<nic_names, pip_names, cursor>>
vars == <<module, inv, resource_group, nicProv, public_ips, vmProv, vmLocals>>

\* ------------------------------------------------------------ provider
NoResourceGroup == [exists |-> FALSE, location |-> "None", tags |-> "None"]
ResourceGroupStates ==
  {NoResourceGroup} \cup
  [exists : {TRUE}, location : Locations, tags : TagValues]

\* outcomes of a get of the target: the object, the not-found CloudError,
\* another CloudError, or an exception that is not a CloudError (which also
\* stands for a failing check_provisioning_state)
FetchOutcomes(exists) ==
  IF exists THEN {"found", "cloud_error", "abort"}
            ELSE {"not_found", "cloud_error", "abort"}

\* the ways an invocation ends in failure: self.fail on a parameter, an
\* unresolved reference or an immutable field; a provider call that raises
\* (reported through self.fail or propagated); an exception raised by the
\* module's own statements
FailedPrecondition == "failed_precondition"
FailedProvider == "failed_provider"
FailedException == "failed_exception"
FailedStates == {FailedPrecondition, FailedProvider, FailedException}

NoPrev == [ran |-> FALSE, changed |-> FALSE, ok |-> FALSE, fetched |-> "none",
           check_mode |-> FALSE, decided |-> FALSE, pc |-> "idle"]

\* the kwargs a caller passes when it reconciles the same desired state
\* again: the same ones, or the same ones without check mode after a dry run
Rerun(a, old) ==
  \/ a = old
  \/ old.check_mode /\ a = [old EXCEPT !.check_mode = FALSE]

\* ======================================================================
\* azure_rm_resourcegroup
\* ======================================================================
RgArgs ==
  [state : {"present", "absent"}, location : Locations \cup {"None"},
   tags : TagValues, force : BOOLEAN, check_mode : BOOLEAN]

\* the defaults of module_arg_spec (lines 150-157)
RgDefaultArgs == [state |-> "present", location |-> "None", tags |-> "None",
                  force |-> FALSE, check_mode |-> FALSE]

resource_group_to_dict(rg) == [EmptyBody EXCEPT !.location = rg.location, !.tags = rg.tags]

\* check mode returns self.results right after the decision
\* variant: the check-mode test of line 211 is dropped
RgCheckModeIgnored(a) == FALSE
RgCheckModeReturns(a) == a.check_mode

\* the decision of lines 188-206: changed flag, results dict, fatal error
\* variant: the force test of line 193 is dropped
RgForceIgnored(a) == FALSE
RgForceChanges(a) == a.force
RgTagsDiffer(d, a) == d.tags /= a.tags
\* variant: the location test of line 198 is dropped
RgLocationIgnored(d, a) == FALSE
RgLocationDiffers(d, a) == d.location /= a.location

RgDecideFound(rg, a) ==
  LET d == resource_group_to_dict(rg) IN
  IF a.state = "absent"
  THEN [changed |-> TRUE, results |-> DictResult(d), fail |-> FALSE]
  ELSE [changed |-> RgForceChanges(a) \/ RgTagsDiffer(d, a),
        results |-> DictResult(IF RgTagsDiffer(d, a) THEN [d EXCEPT !.tags = a.tags] ELSE d),
        fail |-> RgLocationDiffers(d, a)]

RgDecideCloudError(a) ==
  [changed |-> (a.state = "present"), results |-> EmptyResult, fail |-> FALSE]

\* where the invocation goes after lines 208-214
RgAfterDecide(a, changed) ==
  IF RgCheckModeReturns(a) THEN "done"
  ELSE IF ~changed THEN "done"
  ELSE IF a.state = "present" /\ a.force THEN "rg_force_delete"
  ELSE IF a.state = "present" THEN "rg_create_or_update"
  ELSE "rg_delete"

\* exec_module_impl entry: the kwargs are copied to self, the locals reset
RgInvoke ==
  /\ module = "resourcegroup"
  /\ pc \in {"idle", "done"} \cup FailedStates
  /\ runs < MaxRuns
  /\ \E a \in RgArgs :
       /\ (runs > 0 => Rerun(a, args))
       /\ args' = a
       /\ results' = [changed |-> FALSE, check_mode |-> a.check_mode, results |-> EmptyResult]
  /\ prev' = IF runs = 0 THEN NoPrev
             ELSE [ran |-> TRUE, changed |-> results.changed, ok |-> (pc = "done"),
                   fetched |-> fetched, check_mode |-> args.check_mode,
                   decided |-> decided, pc |-> pc]
  /\ runs' = runs + 1
  /\ pc' = "rg_fetch"
  /\ calls' = <<>>
  /\ fetched' = "none"
  /\ target' = NoResourceGroup
  /\ decided' = FALSE
  /\ observed' = target'
  /\ UNCHANGED <<module, resource_group, nicProv, public_ips, vmProv, vmLocals>>

\* lines 183-212: get, decide, publish changed/results, check-mode return
RgFetchDecide ==
  /\ module = "resourcegroup"
  /\ pc = "rg_fetch"
  /\ calls' = Append(calls, Call("get", "resource_group", NoId))
  /\ \E outcome \in FetchOutcomes(resource_group.exists) :
       /\ fetched' = outcome
       /\ \/ /\ outcome = "abort"
             /\ pc' = FailedProvider
             /\ UNCHANGED <<results, target, observed, decided>>
          \/ /\ outcome = "found"
             /\ LET d == RgDecideFound(resource_group, args) IN
                IF d.fail
                THEN /\ pc' = FailedPrecondition
                     /\ target' = resource_group
                     /\ observed' = target'
                     /\ UNCHANGED <<results, decided>>
                ELSE /\ results' = [results EXCEPT !.changed = d.changed, !.results = d.results]
                     /\ target' = resource_group
                     /\ observed' = target'
                     /\ decided' = TRUE
                     /\ pc' = RgAfterDecide(args, d.changed)
          \/ /\ outcome \in {"not_found", "cloud_error"}
             /\ LET d == RgDecideCloudError(args) IN
                /\ results' = [results EXCEPT !.changed = d.changed, !.results = d.results]
                /\ target' = NoResourceGroup
                /\ observed' = target'
                /\ decided' = TRUE
                /\ pc' = RgAfterDecide(args, d.changed)
  /\ UNCHANGED <<module, args, runs, prev, resource_group, nicProv, public_ips, vmProv, vmLocals>>

\* delete_resource_group (lines 247-257): delete, poll, results = 'Deleted'
\* ok = FALSE: the delete call or the poll raises and the module fails
RgDeleteCall(next) ==
  /\ calls' = Append(calls, Call("delete", "resource_group", NoId))
  /\ \E ok \in BOOLEAN :
       IF ok
       THEN /\ resource_group' = NoResourceGroup
            /\ results' = [results EXCEPT !.results = DeletedResult]
            /\ pc' = next
       ELSE /\ pc' = FailedProvider
            /\ UNCHANGED <<resource_group, results>>

\* lines 215-217: forced delete before the re-creation, rg = None
RgForceDelete ==
  /\ module = "resourcegroup"
  /\ pc = "rg_force_delete"
  /\ RgDeleteCall("rg_create_or_update")
  /\ target' = NoResourceGroup
  /\ UNCHANGED <<module, args, runs, fetched, observed, decided, prev, nicProv, public_ips, vmProv, vmLocals>>

\* the parameters built at lines 220-233.  With rg held, the code subscripts
\* the ResourceGroup object (rg['location'], rg['tags']): either the object
\* does not support it (TypeError, the invocation aborts) or it yields the
\* observed fields of rg, never the overlaid results.
RgUpdateTags(rg, a) == rg.tags
RgParams(a, rg) ==
  IF ~rg.exists THEN [location |-> a.location, tags |-> a.tags]
  ELSE [location |-> rg.location, tags |-> RgUpdateTags(rg, a)]

\* variant: a failed create-or-update is compensated by restoring the group
\* that was seen at the fetch
RgAfterFailedCreateRestored(rg) == observed
\* lines 243-244: the failure is reported through self.fail and nothing is
\* undone; the group stays as the earlier steps left it
RgAfterFailedCreate(rg) == rg

\* lines 219-234 and create_or_update_resource_group (240-245)
RgCreateOrUpdate ==
  /\ module = "resourcegroup"
  /\ pc = "rg_create_or_update"
  /\ \/ \* line 222: location is required when creating
        /\ ~target.exists /\ ~Truthy(args.location)
        /\ pc' = FailedPrecondition
        /\ UNCHANGED <<calls, resource_group, results>>
     \/ \* line 231: the ResourceGroup object is not subscriptable
        /\ target.exists
        /\ pc' = FailedException
        /\ UNCHANGED <<calls, resource_group, results>>
     \/ /\ target.exists \/ Truthy(args.location)
        /\ LET p == RgParams(args, target) IN
           /\ calls' = Append(calls, Call("create_or_update", "resource_group", NoId))
           /\ \E ok \in BOOLEAN :
                \* the provider refuses to move an existing group
                IF ok /\ (resource_group.exists => resource_group.location = p.location)
                THEN /\ resource_group' = [exists |-> TRUE, location |-> p.location, tags |-> p.tags]
                     /\ results' = [results EXCEPT !.results =
                                      DictResult(resource_group_to_dict(resource_group'))]
                     /\ pc' = "done"
                ELSE /\ pc' = FailedProvider
                     /\ resource_group' = RgAfterFailedCreate(resource_group)
                     /\ UNCHANGED results
  /\ UNCHANGED <<module, args, runs, fetched, target, observed, decided, prev, nicProv, public_ips, vmProv, vmLocals>>

\* lines 235-236: state absent
RgDelete ==
  /\ module = "resourcegroup"
  /\ pc = "rg_delete"
  /\ RgDeleteCall("done")
  /\ UNCHANGED <<module, args, runs, fetched, target, observed, decided, prev, nicProv, public_ips, vmProv, vmLocals>>

\* ======================================================================
\* azure_rm_networkinterface
\* ======================================================================
LowerLetters == {"a","b","c","d","e","f","g","h","i","j","k","l","m",
                 "n","o","p","q","r","s","t","u","v","w","x","y","z"}
Digits == {"0","1","2","3","4","5","6","7","8","9"}

\* NAME_PATTERN = ^[a-z][a-z0-9-]{1,61}[a-z0-9]$ on a sequence of characters
NAME_PATTERN_match(s) ==
  /\ Len(s) >= 3
  /\ Len(s) <= 63
  /\ s[1] \in LowerLetters
  /\ s[Len(s)] \in LowerLetters \cup Digits
  /\ \A i \in 2..(Len(s) - 1) : s[i] \in LowerLetters \cup Digits \cup {"-"}

\* candidate names: nic-3 matches; the others are too short, start with a
\* digit, end with a hyphen, or hold an upper-case letter
NicNameValues == {<<"n","i","c","-","3">>, <<"n","1">>, <<"1","i","c">>,
                  <<"n","i","-">>, <<"N","i","c">>}

RefIds == {1, 2}
NicResourceGroupLocation == "eastus2"

\* The arguments the model draws from: every combination of the compared
\* properties for state present; for state absent (where no property is read)
\* and for the names that do not match, a smaller set of combinations.
NicPropertyArgs ==
  [name : {<<"n","i","c","-","3">>}, state : {"present"},
   location : {"None"}, tags : TagValues,
   private_ip_address : {"None", "10.0.0.5"},
   private_ip_allocation_method : {"Dynamic", "Static"},
   public_ip_address_name : RefIds \cup {NoId},
   subnet_name : RefIds, security_group_name : RefIds,
   check_mode : BOOLEAN]
NicArgs ==
  {a \in NicPropertyArgs : a.subnet_name = 1 \/ a.security_group_name = 1}
  \cup
  [name : {<<"n","i","c","-","3">>}, state : {"absent"},
   location : {"None", "westus"}, tags : TagValues,
   private_ip_address : {"None"}, private_ip_allocation_method : {"Dynamic"},
   public_ip_address_name : RefIds \cup {NoId},
   subnet_name : {1}, security_group_name : {1},
   check_mode : BOOLEAN]
  \cup
  [name : NicNameValues, state : {"present", "absent"},
   location : {"None"}, tags : {"None"},
   private_ip_address : {"None"}, private_ip_allocation_method : {"Dynamic"},
   public_ip_address_name : {NoId},
   subnet_name : {1}, security_group_name : {1},
   check_mode : BOOLEAN]

\* the defaults of module_arg_spec (lines 271-284)
NicDefaultArgs ==
  [name |-> <<"n","i","c","-","3">>, state |-> "present", location |-> "None",
   tags |-> "None", private_ip_address |-> "None",
   private_ip_allocation_method |-> "Dynamic", public_ip_address_name |-> NoId,
   subnet_name |-> 1, security_group_name |-> 1, check_mode |-> FALSE]

NoNic == [exists |-> FALSE, location |-> "None", tags |-> "None",
          private_ip_address |-> "None", private_ip_allocation_method |-> "None",
          public_ip_address |-> NoId, subnet |-> NoId, network_security_group |-> NoId]
\* the network interfaces a behaviour may start from
NicInitStates ==
  {NoNic} \cup
  [exists : {TRUE}, location : {"eastus2"}, tags : {"None", "{a:1}"},
   private_ip_address : {"10.0.0.4"}, private_ip_allocation_method : {"Dynamic", "Static"},
   public_ip_address : {NoId, 1}, subnet : {1}, network_security_group : {1}]

\* the resource id the provider gives the public IP of a name: a path of
\* key/value segments that ends in publicIPAddresses/<name>
PublicIpId(name) ==
  <<[k |-> "resourceGroups", v |-> NoId], [k |-> "publicIPAddresses", v |-> name]>>

\* azure_id_to_dict: the segments of a resource id as a dict from key to value
azure_id_to_dict(id) ==
  [key \in {id[i].k : i \in DOMAIN id} |->
     id[CHOOSE i \in DOMAIN id : id[i].k = key].v]

\* lines 220-264; the name of the public IP is read back from its id
nic_to_dict(nic) ==
  [EmptyBody EXCEPT !.location = nic.location, !.tags = nic.tags,
                    !.private_ip_address = nic.private_ip_address,
                    !.private_ip_allocation_method = nic.private_ip_allocation_method,
                    !.public_ip_address =
                       IF nic.public_ip_address = NoId THEN NoId
                       ELSE azure_id_to_dict(PublicIpId(nic.public_ip_address))["publicIPAddresses"],
                    !.subnet = nic.subnet,
                    !.network_security_group = nic.network_security_group]

NicCheckModeReturns(a) == a.check_mode

\* lines 350-380: the four comparisons, each overlaying its field
NicTagsChanged(d, a) == Truthy(a.tags) /\ d.tags /= a.tags
NicPrivateIpChanged(d, a) ==
  Truthy(a.private_ip_address) /\ d.private_ip_address /= a.private_ip_address
NicPublicIpChanged(d, a) ==
  a.public_ip_address_name /= NoId /\ d.public_ip_address /= a.public_ip_address_name
NicAllocationChanged(d, a) ==
  d.private_ip_allocation_method /= a.private_ip_allocation_method

NicOverlay(d, a) ==
  [d EXCEPT
     !.tags = IF NicTagsChanged(d, a) THEN a.tags ELSE @,
     !.private_ip_address = IF NicPrivateIpChanged(d, a) THEN a.private_ip_address ELSE @,
     \* line 366 writes a new key, not ip_configuration.public_ip_address
     !.public_ip_address_id = IF NicPublicIpChanged(d, a) THEN a.public_ip_address_name ELSE @,
     !.private_ip_allocation_method =
        IF NicAllocationChanged(d, a) THEN a.private_ip_allocation_method ELSE @]

\* variant: the subnet comparison commented out at lines 382-387 is active
NicDecideFoundSubnet(nic, a) ==
  LET d == nic_to_dict(nic) IN
  IF a.state = "present"
  THEN [changed |-> \/ NicTagsChanged(d, a) \/ NicPrivateIpChanged(d, a)
                    \/ NicPublicIpChanged(d, a) \/ NicAllocationChanged(d, a)
                    \/ nic.subnet /= a.subnet_name,
        results |-> DictResult(NicOverlay(d, a))]
  ELSE [changed |-> TRUE, results |-> DictResult(d)]
NicDecideFound(nic, a) ==
  LET d == nic_to_dict(nic) IN
  IF a.state = "present"
  THEN [changed |-> \/ NicTagsChanged(d, a) \/ NicPrivateIpChanged(d, a)
                    \/ NicPublicIpChanged(d, a) \/ NicAllocationChanged(d, a),
        results |-> DictResult(NicOverlay(d, a))]
  ELSE [changed |-> TRUE, results |-> DictResult(d)]

\* variant: a missing interface counts as a change for every state
NicDecideCloudErrorAlways(a) == [changed |-> TRUE, results |-> EmptyResult]
NicDecideCloudError(a) ==
  [changed |-> (a.state = "present"), results |-> EmptyResult]

\* variant: the state absent branch of lines 475-477 is missing
NicAfterDecideNoDelete(a, changed) ==
  IF NicCheckModeReturns(a) THEN "done"
  ELSE IF ~changed THEN "done"
  ELSE IF a.state = "present" THEN "nic_create_or_update"
  ELSE "done"
NicAfterDecide(a, changed) ==
  IF NicCheckModeReturns(a) THEN "done"
  ELSE IF ~changed THEN "done"
  ELSE IF a.state = "present" THEN "nic_create_or_update"
  ELSE "nic_delete"

\* exec_module_impl entry (lines 313-320)
NicInvoke ==
  /\ module = "networkinterface"
  /\ pc \in {"idle", "done"} \cup FailedStates
  /\ runs < MaxRuns
  /\ \E a \in NicArgs :
       /\ (runs > 0 => Rerun(a, args))
       /\ args' = a
       /\ results' = [changed |-> FALSE, check_mode |-> a.check_mode, results |-> EmptyResult]
  /\ prev' = IF runs = 0 THEN NoPrev
             ELSE [ran |-> TRUE, changed |-> results.changed, ok |-> (pc = "done"),
                   fetched |-> fetched, check_mode |-> args.check_mode,
                   decided |-> decided, pc |-> pc]
  /\ runs' = runs + 1
  /\ pc' = "nic_resolve"
  /\ calls' = <<>>
  /\ fetched' = "none"
  /\ target' = NoNic
  /\ decided' = FALSE
  /\ observed' = target'
  /\ UNCHANGED <<module, resource_group, nicProv, public_ips, vmProv, vmLocals>>

\* the gets of lines 332-339, in order, for state present
NicResolveCalls(a) ==
  IF a.state /= "present" THEN <<>>
  ELSE <<Call("get", "subnet", a.subnet_name)>>
       \o (IF a.public_ip_address_name /= NoId
           THEN <<Call("get", "public_ip", a.public_ip_address_name)>> ELSE <<>>)
       \o (IF a.security_group_name /= NoId
           THEN <<Call("get", "security_group", a.security_group_name)>> ELSE <<>>)

\* variant: the get of a referenced resource never reports it missing
NicRefExistsAlways(c) == TRUE
\* whether a referenced resource is found at the provider
NicRefExists(c) ==
  CASE c.kind = "subnet" -> c.name \in subnets
    [] c.kind = "public_ip" -> c.name \in public_ips
    [] c.kind = "security_group" -> c.name \in security_groups

\* variant: the pattern test of line 327 is missing
NicNameOkAlways(a) == TRUE
NicNameOk(a) == NAME_PATTERN_match(a.name)

\* lines 322-339: resource group, name pattern, references.
\* The step fails at the first get that does not find its resource; abort
\* stands for get_resource_group failing.
NicResolve ==
  /\ module = "networkinterface"
  /\ pc = "nic_resolve"
  /\ \E abort \in BOOLEAN :
       LET rc == NicResolveCalls(args)
           bad == {i \in 1..Len(rc) : ~NicRefExists(rc[i])}
           first == IF bad = {} THEN Len(rc)
                    ELSE CHOOSE i \in bad : \A j \in bad : i <= j
       IN
       IF abort THEN
            /\ pc' = FailedProvider
            /\ calls' = Append(calls, Call("get", "resource_group", NoId))
       ELSE IF ~NicNameOk(args)
       THEN /\ pc' = FailedPrecondition
            /\ calls' = Append(calls, Call("get", "resource_group", NoId))
       ELSE /\ calls' = Append(calls, Call("get", "resource_group", NoId))
                          \o SubSeq(rc, 1, first)
            /\ pc' = IF bad = {} THEN "nic_fetch" ELSE FailedPrecondition
  /\ UNCHANGED <<module, args, runs, results, fetched, target, observed, decided, prev,
                 resource_group, nicProv, public_ips, vmProv, vmLocals>>

\* lines 341-403: get, decide, publish changed/results, check-mode return
NicFetchDecide ==
  /\ module = "networkinterface"
  /\ pc = "nic_fetch"
  /\ calls' = Append(calls, Call("get", "network_interface", NoId))
  /\ \E outcome \in FetchOutcomes(network_interface.exists) :
       /\ fetched' = outcome
       /\ \/ /\ outcome = "abort"
             /\ pc' = FailedProvider
             /\ UNCHANGED <<results, target, observed, decided>>
          \/ /\ outcome = "found"
             /\ LET d == NicDecideFound(network_interface, args) IN
                /\ results' = [results EXCEPT !.changed = d.changed, !.results = d.results]
                /\ target' = network_interface
                /\ observed' = target'
                /\ decided' = TRUE
                /\ pc' = NicAfterDecide(args, d.changed)
          \/ /\ outcome \in {"not_found", "cloud_error"}
             /\ LET d == NicDecideCloudError(args) IN
                /\ results' = [results EXCEPT !.changed = d.changed, !.results = d.results]
                /\ target' = NoNic
                /\ observed' = target'
                /\ decided' = TRUE
                /\ pc' = NicAfterDecide(args, d.changed)
  /\ UNCHANGED <<module, args, runs, prev, resource_group, nicProv, public_ips, vmProv, vmLocals>>

\* lines 323-325: self.location defaults to the resource group's location
NicLocation(a) == IF Truthy(a.location) THEN a.location ELSE NicResourceGroupLocation

\* variant: the public IP of lines 430-435 is left out of the new interface
NicCreateSpecNoPublicIp(a) ==
  [location |-> NicLocation(a), tags |-> a.tags,
   private_ip_address |-> a.private_ip_address,
   private_ip_allocation_method |-> a.private_ip_allocation_method,
   public_ip_address |-> NoId,
   subnet |-> a.subnet_name,
   network_security_group |-> a.security_group_name]
\* lines 408-435: the interface built from the arguments
NicCreateSpec(a) ==
  [location |-> NicLocation(a), tags |-> a.tags,
   private_ip_address |-> a.private_ip_address,
   private_ip_allocation_method |-> a.private_ip_allocation_method,
   public_ip_address |-> a.public_ip_address_name,
   subnet |-> a.subnet_name,
   network_security_group |-> a.security_group_name]

\* lines 437-466: the interface built from the results dict; the subnet is
\* the one resolved from the arguments, the public IP and the security
\* group are the observed ones, looked up again by name
NicUpdatePublicIp(r, a) == r.public_ip_address
NicUpdateSpec(r, a) ==
  [location |-> r.location, tags |-> r.tags,
   private_ip_address |-> r.private_ip_address,
   private_ip_allocation_method |-> r.private_ip_allocation_method,
   public_ip_address |-> NicUpdatePublicIp(r, a),
   subnet |-> a.subnet_name,
   network_security_group |-> r.network_security_group]

\* the provider stores the submitted interface; it assigns a private address
\* when none is given
NicStored(spec) ==
  [exists |-> TRUE, location |-> spec.location, tags |-> spec.tags,
   private_ip_address |-> IF Truthy(spec.private_ip_address)
                          THEN spec.private_ip_address ELSE "10.0.0.4",
   private_ip_allocation_method |-> spec.private_ip_allocation_method,
   public_ip_address |-> spec.public_ip_address,
   subnet |-> spec.subnet,
   network_security_group |-> spec.network_security_group]

\* lines 406-473 and create_or_update_nic (481-496)
NicCreateOrUpdate ==
  /\ module = "networkinterface"
  /\ pc = "nic_create_or_update"
  /\ LET r == results.results.body
         lookups ==
           IF ~target.exists THEN <<>>
           ELSE (IF r.public_ip_address /= NoId
                 THEN <<Call("get", "public_ip", r.public_ip_address)>> ELSE <<>>)
                \o (IF r.network_security_group /= NoId
                    THEN <<Call("get", "security_group", r.network_security_group)>> ELSE <<>>)
         bad == {i \in 1..Len(lookups) : ~NicRefExists(lookups[i])}
         spec == IF target.exists THEN NicUpdateSpec(r, args) ELSE NicCreateSpec(args)
     IN
     IF bad /= {}
     THEN /\ calls' = calls \o SubSeq(lookups, 1, CHOOSE i \in bad : \A j \in bad : i <= j)
          /\ pc' = FailedPrecondition
          /\ UNCHANGED <<network_interface, results>>
     ELSE /\ calls' = (calls \o lookups)
                        \o <<Call("create_or_update", "network_interface", NoId)>>
          /\ \E ok \in BOOLEAN :
               IF ok
               THEN /\ network_interface' = NicStored(spec)
                    /\ results' = [results EXCEPT !.results =
                                     DictResult(nic_to_dict(network_interface'))]
                    /\ pc' = "done"
               ELSE /\ pc' = FailedProvider
                    /\ UNCHANGED <<network_interface, results>>
  /\ UNCHANGED <<module, args, runs, fetched, target, observed, decided, prev,
                 resource_group, subnets, security_groups, public_ips,
                 vmProv, vmLocals>>

\* lines 475-477 and delete_nic (498-506): delete, poll, results = 'Deleted'
NicDelete ==
  /\ module = "networkinterface"
  /\ pc = "nic_delete"
  /\ calls' = Append(calls, Call("delete", "network_interface", NoId))
  /\ \E ok \in BOOLEAN :
       IF ok
       THEN /\ network_interface' = NoNic
            /\ results' = [results EXCEPT !.results = DeletedResult]
            /\ pc' = "done"
       ELSE /\ pc' = FailedProvider
            /\ UNCHANGED <<network_interface, results>>
  /\ UNCHANGED <<module, args, runs, fetched, target, observed, decided, prev,
                 resource_group, subnets, security_groups, public_ips,
                 vmProv, vmLocals>>

\* ======================================================================
\* azure_rm_virtualmachine
\* ======================================================================
NicIds == 1..MaxNics

\* the elements of a set of ids as a list in ascending order
RECURSIVE SortedSeq(_)
SortedSeq(S) ==
  IF S = {} THEN <<>>
  ELSE LET m == CHOOSE x \in S : \A y \in S : x <= y
       IN <<m>> \o SortedSeq(S \ {m})

SeqRange(q) == {q[i] : i \in 1..Len(q)}

\* the sizes a caller asks for and the sizes the provider lists for the
\* location; the image versions a caller asks for and the lists the provider
\* may return for publisher/offer/sku
VmSizeValues == {"Standard_A0", "Standard_G5"}
VmSizes == {"Standard_A0", "Standard_A1"}
ImageVersionValues == {"latest", "1", "3"}
ImageLists == {<<>>, <<"1", "2">>, <<"2", "1">>}

\* The arguments the model draws from: every combination of the deletion
\* flags with the default size and image version; every size and image
\* version for state started without deletion flags.
VmArgs ==
  [state : {"started"}, force : BOOLEAN, check_mode : BOOLEAN,
   delete_network_interfaces : BOOLEAN, delete_virtual_storage : BOOLEAN,
   delete_public_ips : BOOLEAN,
   network_interface_names : {{1}, {MaxNics}, NicIds},
   vm_size : {"Standard_A0"}, image_version : {"latest"}]
  \cup
  [state : {"stopped", "absent"}, force : BOOLEAN, check_mode : BOOLEAN,
   delete_network_interfaces : BOOLEAN, delete_virtual_storage : BOOLEAN,
   delete_public_ips : BOOLEAN,
   network_interface_names : {{1}},
   vm_size : {"Standard_A0"}, image_version : {"latest"}]
  \cup
  [state : {"started"}, force : BOOLEAN, check_mode : BOOLEAN,
   delete_network_interfaces : {FALSE}, delete_virtual_storage : {FALSE},
   delete_public_ips : {FALSE},
   network_interface_names : {{1}},
   vm_size : VmSizeValues, image_version : ImageVersionValues]

\* the defaults of module_arg_spec (lines 118-146)
VmDefaultArgs ==
  [state |-> "started", force |-> FALSE, check_mode |-> FALSE,
   delete_network_interfaces |-> FALSE, delete_virtual_storage |-> FALSE,
   delete_public_ips |-> FALSE, network_interface_names |-> {1},
   vm_size |-> "Standard_A0", image_version |-> "latest"]

NoVm == [exists |-> FALSE, network_interfaces |-> {}, vm_size |-> "None",
         image_version |-> "None"]
VmInitStates ==
  {NoVm} \cup [exists : {TRUE}, network_interfaces : {{1}, NicIds},
               vm_size : {"Standard_A0"}, image_version : {"1"}]
\* interface i is either without a public IP or holds public IP i
NicInitMaps == [NicIds -> [exists : {TRUE}, public_ip : {NoId}] \cup
                          [exists : {TRUE}, public_ip : NicIds]]

VmCheckModeReturns(a) == a.check_mode

\* lines 244-259: the decision; results stays the empty dict
VmForceChanges(a) == a.state = "started" /\ a.force
VmDecideFound(a) ==
  IF VmForceChanges(a) THEN TRUE
  ELSE IF a.state = "started" THEN FALSE
  ELSE IF a.state = "stopped" THEN FALSE
  ELSE TRUE
\* variant: the changed flag of the previous invocation is carried over
VmDecideCloudErrorCarried(a) == a.state = "started" \/ prev.changed
VmDecideCloudError(a) == a.state = "started"

\* lines 264-273: check mode returns; a change is applied for state started
\* only, after delete_vm when force is set
\* variant: the invocation waits for the machine to be gone, which no step
\* of it brings about
VmAbsentApplyWaits(a) == "vm_wait_absent"
VmAbsentApply(a) == "done"
VmAfterDecide(a, changed) ==
  IF VmCheckModeReturns(a) THEN "done"
  ELSE IF ~changed THEN "done"
  ELSE IF a.state = "started" /\ a.force THEN "vm_delete_capture"
  ELSE IF a.state = "started" THEN "vm_create"
  ELSE VmAbsentApply(a)

\* exec_module_impl entry (lines 197-205)
VmInvoke ==
  /\ module = "virtualmachine"
  /\ pc \in {"idle", "done"} \cup FailedStates
  /\ runs < MaxRuns
  /\ \E a \in VmArgs :
       /\ (runs > 0 => Rerun(a, args))
       /\ args' = a
       /\ results' = [changed |-> FALSE, check_mode |-> a.check_mode, results |-> EmptyResult]
  /\ prev' = IF runs = 0 THEN NoPrev
             ELSE [ran |-> TRUE, changed |-> results.changed, ok |-> (pc = "done"),
                   fetched |-> fetched, check_mode |-> args.check_mode,
                   decided |-> decided, pc |-> pc]
  /\ runs' = runs + 1
  /\ pc' = "vm_resolve"
  /\ calls' = <<>>
  /\ fetched' = "none"
  /\ target' = NoVm
  /\ decided' = FALSE
  /\ observed' = target'
  /\ nic_names' = <<>>
  /\ pip_names' = <<>>
  /\ cursor' = 1
  /\ UNCHANGED <<module, resource_group, nicProv, public_ips, vmProv>>

\* the gets of get_network_interface, one per name, in order
VmNicGets(names) == [i \in 1..Len(names) |-> Call("get", "network_interface", names[i])]

\* vm_size_is_valid (lines 488-500): whether the size is in the listed ones
vm_size_is_valid(a) == a.vm_size \in VmSizes

\* get_image_version (lines 453-470): for "latest" the last element of the
\* list, else the listed element of that name, else None
get_image_version(versions, a) ==
  IF Len(versions) > 0
  THEN IF a.image_version = "latest" THEN versions[Len(versions)]
       ELSE IF \E i \in 1..Len(versions) : versions[i] = a.image_version
            THEN a.image_version
            ELSE "None"
  ELSE "None"

\* lines 229-230: self.image_version after the resolution
VmImageVersion(a) ==
  IF a.image_version = "latest" THEN get_image_version(image_versions, a)
  ELSE a.image_version

\* line 214: the value vm_size_is_valid returns is not looked at
VmSizeRejected(a) == FALSE

\* lines 207-233: resource group and, for state started, the size list, the
\* named interfaces, the image versions and the storage account.  The step
\* fails at the first reference that is not found; abort stands for
\* get_resource_group failing.
VmResolve ==
  /\ module = "virtualmachine"
  /\ pc = "vm_resolve"
  /\ \E abort \in BOOLEAN :
       LET names == SortedSeq(args.network_interface_names)
           gets == IF args.state = "started" THEN VmNicGets(names) ELSE <<>>
           bad == {i \in 1..Len(gets) : ~nics[gets[i].name].exists}
           first == IF bad = {} THEN Len(gets)
                    ELSE CHOOSE i \in bad : \A j \in bad : i <= j
           head == <<Call("get", "resource_group", NoId)>>
                   \o (IF args.state = "started"
                       THEN <<Call("list", "virtual_machine_sizes", NoId)>> ELSE <<>>)
           images == <<Call("list", "virtual_machine_images", NoId)>>
           storage == <<Call("get", "storage_account", NoId)>>
       IN
       IF abort
       THEN /\ pc' = FailedProvider
            /\ calls' = calls \o <<Call("get", "resource_group", NoId)>>
       ELSE IF args.state /= "started"
       THEN /\ pc' = "vm_fetch"
            /\ calls' = calls \o head
       ELSE IF VmSizeRejected(args)
       THEN /\ pc' = FailedPrecondition
            /\ calls' = calls \o head
       ELSE IF bad /= {}
       THEN /\ pc' = FailedPrecondition
            /\ calls' = (calls \o head) \o SubSeq(gets, 1, first)
       ELSE IF get_image_version(image_versions, args) = "None"
       THEN /\ pc' = FailedPrecondition
            /\ calls' = ((calls \o head) \o gets) \o images
       ELSE IF ~storage_account
       THEN /\ pc' = FailedPrecondition
            /\ calls' = (((calls \o head) \o gets) \o images) \o storage
       ELSE /\ pc' = "vm_fetch"
            /\ calls' = (((calls \o head) \o gets) \o images) \o storage
  /\ UNCHANGED <<module, args, runs, results, fetched, target, observed, decided, prev,
                 resource_group, nicProv, public_ips, vmProv, vmLocals>>

\* lines 235-265: get, decide, publish changed/results, check-mode return
VmFetchDecide ==
  /\ module = "virtualmachine"
  /\ pc = "vm_fetch"
  /\ calls' = Append(calls, Call("get", "virtual_machine", NoId))
  /\ \E outcome \in FetchOutcomes(virtual_machine.exists) :
       /\ fetched' = outcome
       /\ \/ /\ outcome = "abort"
             /\ pc' = FailedProvider
             /\ UNCHANGED <<results, target, observed, decided>>
          \/ /\ outcome = "found"
             /\ results' = [results EXCEPT !.changed = VmDecideFound(args)]
             /\ target' = virtual_machine
             /\ observed' = target'
             /\ decided' = TRUE
             /\ pc' = VmAfterDecide(args, VmDecideFound(args))
          \/ /\ outcome \in {"not_found", "cloud_error"}
             /\ results' = [results EXCEPT !.changed = VmDecideCloudError(args)]
             /\ target' = NoVm
             /\ observed' = target'
             /\ decided' = TRUE
             /\ pc' = VmAfterDecide(args, VmDecideCloudError(args))
  /\ UNCHANGED <<module, args, runs, prev, resource_group, nicProv, public_ips,
                 vmProv, nic_names, pip_names, cursor>>

\* variant: the tests of delete_network_interfaces are missing
VmNicsOptedInAlways(a) == TRUE
\* lines 370 and 400: the interfaces are captured and deleted on request only
VmNicsOptedIn(a) == a.delete_network_interfaces

\* variant: the loop over the public IPs comes before the loop over the
\* interfaces
VmTeardownNextPipsFirst(stage, a, nn, pn) ==
  IF stage = "vm_delete" /\ a.delete_virtual_storage THEN "vm_delete_storage"
  ELSE IF stage \in {"vm_delete", "vm_delete_storage"}
          /\ a.delete_public_ips /\ Len(pn) > 0 THEN "vm_delete_pips"
  ELSE IF stage \in {"vm_delete", "vm_delete_storage"}
          /\ VmNicsOptedIn(a) /\ Len(nn) > 0 THEN "vm_delete_nics"
  ELSE "vm_create"
\* the stage of delete_vm that follows a given one (lines 396-409)
VmTeardownNext(stage, a, nn, pn) ==
  IF stage = "vm_delete" /\ a.delete_virtual_storage THEN "vm_delete_storage"
  ELSE IF stage \in {"vm_delete", "vm_delete_storage"}
          /\ VmNicsOptedIn(a) /\ Len(nn) > 0 THEN "vm_delete_nics"
  ELSE IF stage \in {"vm_delete", "vm_delete_storage", "vm_delete_nics"}
          /\ a.delete_public_ips /\ Len(pn) > 0 THEN "vm_delete_pips"
  ELSE "vm_create"

\* lines 357-387 of delete_vm: what is read before the machine is deleted.
\* The body reads the name vm, which delete_vm does not define: the read
\* raises unless the name is bound at module level, and fails as well when
\* no machine is held.
\* variant: every interface of the resource group is taken
VmCaptureNicsAll(a, machine) ==
  IF VmNicsOptedIn(a) THEN SortedSeq(NicIds) ELSE <<>>
VmCaptureNics(a, machine) ==
  IF VmNicsOptedIn(a) THEN SortedSeq(machine.network_interfaces) ELSE <<>>
\* variant: the public IPs of every interface are taken, attached or not
VmCapturePipsAll(a, names) ==
  IF a.delete_network_interfaces /\ a.delete_public_ips
  THEN SortedSeq({nics[n].public_ip : n \in NicIds} \ {NoId})
  ELSE <<>>
VmCapturePips(a, names) ==
  IF VmNicsOptedIn(a) /\ a.delete_public_ips
  THEN LET withIp == {i \in 1..Len(names) : nics[names[i]].public_ip /= NoId}
       IN SortedSeq({nics[names[i]].public_ip : i \in withIp})
  ELSE <<>>

\* variant: the interfaces are deleted before the machine
VmAfterCaptureNicsFirst(a, nn, pn) ==
  IF a.delete_network_interfaces /\ Len(nn) > 0 THEN "vm_delete_nics" ELSE "vm_delete"
\* line 389 follows the capture: the machine is deleted next
VmAfterCapture(a, nn, pn) == "vm_delete"

VmDeleteCapture ==
  /\ module = "virtualmachine"
  /\ pc = "vm_delete_capture"
  /\ LET readsVm == args.delete_virtual_storage \/ VmNicsOptedIn(args)
         names == VmCaptureNics(args, target)
         gets == IF VmNicsOptedIn(args) /\ args.delete_public_ips
                 THEN VmNicGets(names) ELSE <<>>
         bad == {i \in 1..Len(gets) : ~nics[gets[i].name].exists}
     IN
     IF readsVm /\ (~vm_name_bound \/ ~target.exists)
     THEN /\ pc' = FailedException
          /\ UNCHANGED <<calls, nic_names, pip_names>>
     ELSE IF bad /= {}
     THEN /\ pc' = FailedProvider
          /\ calls' = calls \o SubSeq(gets, 1, CHOOSE i \in bad : \A j \in bad : i <= j)
          /\ nic_names' = names
          /\ UNCHANGED pip_names
     ELSE /\ pc' = VmAfterCapture(args, names, VmCapturePips(args, names))
          /\ calls' = calls \o gets
          /\ nic_names' = names
          /\ pip_names' = VmCapturePips(args, names)
  /\ cursor' = 1
  /\ UNCHANGED <<module, args, runs, results, fetched, target, observed, decided, prev,
                 resource_group, nicProv, public_ips, vmProv>>

\* lines 389-392: the delete of the machine; the poller it returns is not
\* waited for, so the provider finishes the delete later
VmDeleteVm ==
  /\ module = "virtualmachine"
  /\ pc = "vm_delete"
  /\ calls' = Append(calls, Call("delete", "virtual_machine", NoId))
  /\ \E ok \in BOOLEAN :
       IF ok
       THEN /\ vm_delete_pending' = virtual_machine.exists
            /\ pc' = VmTeardownNext("vm_delete", args, nic_names, pip_names)
       ELSE /\ pc' = FailedProvider
            /\ UNCHANGED vm_delete_pending
  /\ cursor' = 1
  /\ UNCHANGED <<module, args, runs, results, fetched, target, observed, decided, prev,
                 resource_group, nicProv, public_ips,
                 virtual_machine, nics, vm_name_bound, image_versions, storage_account,
                 nic_names, pip_names>>

\* lines 396-398: self.delete_virtual_storage is the boolean argument set by
\* setattr at line 200, which hides the method of that name, so the call
\* raises TypeError and no blob is deleted
VmDeleteStorage ==
  /\ module = "virtualmachine"
  /\ pc = "vm_delete_storage"
  /\ pc' = FailedException
  /\ UNCHANGED <<module, args, runs, results, calls, fetched, target, observed, decided, prev,
                 resource_group, nicProv, public_ips, vmProv, vmLocals>>

\* lines 400-403 with delete_nic (418-426): one iteration of the loop
VmDeleteNic ==
  /\ module = "virtualmachine"
  /\ pc = "vm_delete_nics"
  /\ cursor <= Len(nic_names)
  /\ LET n == nic_names[cursor] IN
     /\ calls' = Append(calls, Call("delete", "network_interface", n))
     /\ \E ok \in BOOLEAN :
          IF ok
          THEN /\ nics' = [nics EXCEPT ![n].exists = FALSE]
               /\ IF cursor < Len(nic_names)
                  THEN /\ cursor' = cursor + 1
                       /\ pc' = pc
                  ELSE /\ cursor' = 1
                       /\ pc' = VmTeardownNext("vm_delete_nics", args, nic_names, pip_names)
          ELSE /\ pc' = FailedProvider
               /\ UNCHANGED <<nics, cursor>>
  /\ UNCHANGED <<module, args, runs, results, fetched, target, observed, decided, prev,
                 resource_group, nicProv, public_ips,
                 virtual_machine, vm_delete_pending, vm_name_bound,
                 image_versions, storage_account,
                 nic_names, pip_names>>

\* lines 405-408 with delete_pip (428-435): one iteration of the loop
VmDeletePip ==
  /\ module = "virtualmachine"
  /\ pc = "vm_delete_pips"
  /\ cursor <= Len(pip_names)
  /\ LET p == pip_names[cursor] IN
     /\ calls' = Append(calls, Call("delete", "public_ip", p))
     /\ \E ok \in BOOLEAN :
          IF ok
          THEN /\ public_ips' = public_ips \ {p}
               /\ IF cursor < Len(pip_names)
                  THEN /\ cursor' = cursor + 1
                       /\ pc' = pc
                  ELSE /\ cursor' = 1
                       /\ pc' = "vm_create"
          ELSE /\ pc' = FailedProvider
               /\ UNCHANGED <<public_ips, cursor>>
  /\ UNCHANGED <<module, args, runs, results, fetched, target, observed, decided, prev,
                 resource_group, nicProv, vmProv, nic_names, pip_names>>

\* lines 271-333 with create_vm (480-486): vm = None after delete_vm, then
\* the machine is built from the arguments, submitted and polled.  The
\* provider refuses the machine while a delete of it is unfinished, when an
\* interface it names does not exist or when it does not list the size.
VmCreateSpec(a) ==
  [exists |-> TRUE, network_interfaces |-> a.network_interface_names,
   vm_size |-> a.vm_size, image_version |-> VmImageVersion(a)]
VmCreate ==
  /\ module = "virtualmachine"
  /\ pc = "vm_create"
  /\ calls' = Append(calls, Call("create_or_update", "virtual_machine", NoId))
  /\ target' = NoVm
  /\ \E ok \in BOOLEAN :
       LET spec == VmCreateSpec(args) IN
       IF ok /\ ~vm_delete_pending
          /\ \A n \in spec.network_interfaces : nics[n].exists
          /\ spec.vm_size \in VmSizes
       THEN /\ virtual_machine' = spec
            /\ results' = [results EXCEPT !.results =
                 DictResult([EmptyBody EXCEPT !.network_interfaces = spec.network_interfaces])]
            /\ pc' = "done"
       ELSE /\ pc' = FailedProvider
            /\ UNCHANGED <<virtual_machine, results>>
  /\ UNCHANGED <<module, args, runs, fetched, observed, decided, prev,
                 resource_group, nicProv, public_ips,
                 nics, vm_delete_pending, vm_name_bound, image_versions, storage_account,
                 nic_names, pip_names, cursor>>

\* provider: an accepted delete of the machine finishes
VmDeleteCompletes ==
  /\ module = "virtualmachine"
  /\ vm_delete_pending
  /\ virtual_machine' = NoVm
  /\ vm_delete_pending' = FALSE
  /\ UNCHANGED <<module, inv, resource_group, nicProv, public_ips,
                 nics, vm_name_bound, image_versions, storage_account, vmLocals>>

\* ======================================================================
Init ==
  /\ module \in {"resourcegroup", "networkinterface", "virtualmachine"}
  /\ pc = "idle"
  /\ runs = 0
  /\ args = (CASE module = "resourcegroup" -> RgDefaultArgs
               [] module = "networkinterface" -> NicDefaultArgs
               [] OTHER -> VmDefaultArgs)
  /\ results = [changed |-> FALSE, check_mode |-> FALSE, results |-> EmptyResult]
  /\ calls = <<>>
  /\ fetched = "none"
  /\ target = (CASE module = "resourcegroup" -> NoResourceGroup
                 [] module = "networkinterface" -> NoNic
                 [] OTHER -> NoVm)
  /\ observed = target
  /\ decided = FALSE
  /\ prev = NoPrev
  /\ IF module = "resourcegroup"
     THEN resource_group \in ResourceGroupStates
     ELSE resource_group = [exists |-> TRUE, location |-> NicResourceGroupLocation, tags |-> "None"]
  /\ IF module = "networkinterface"
     THEN /\ network_interface \in NicInitStates
          \* either every named reference exists, or the second subnet,
          \* security group and public IP do not
          /\ \E missing \in BOOLEAN :
               /\ subnets = IF missing THEN {1} ELSE RefIds
               /\ security_groups = IF missing THEN {1} ELSE RefIds
               /\ public_ips = IF missing THEN {1} ELSE RefIds
     ELSE /\ network_interface = NoNic
          /\ subnets = RefIds
          /\ security_groups = RefIds
          /\ module /= "virtualmachine" => public_ips = RefIds
  /\ IF module = "virtualmachine"
     THEN /\ virtual_machine \in VmInitStates
          /\ \E m \in NicInitMaps, missing \in BOOLEAN :
               /\ \A n \in NicIds : m[n].public_ip \in {NoId, n}
               /\ nics = IF missing THEN [m EXCEPT ![MaxNics].exists = FALSE] ELSE m
               /\ missing => (m[MaxNics].public_ip = NoId /\ MaxNics \notin virtual_machine.network_interfaces)
          /\ public_ips = {nics[n].public_ip : n \in NicIds} \ {NoId}
          /\ vm_name_bound \in BOOLEAN
          /\ image_versions \in ImageLists
          /\ storage_account \in BOOLEAN
          \* the other image lists and the missing storage account are
          \* explored with interfaces that exist and hold no public IP
          /\ (image_versions /= <<"1", "2">> \/ ~storage_account)
               => (/\ ~vm_name_bound
                   /\ \A n \in NicIds : nics[n].exists /\ nics[n].public_ip = NoId)
     ELSE /\ virtual_machine = NoVm
          /\ nics = [n \in NicIds |-> [exists |-> TRUE, public_ip |-> NoId]]
          /\ vm_name_bound = FALSE
          /\ image_versions = <<"1", "2">>
          /\ storage_account = TRUE
  /\ vm_delete_pending = FALSE
  /\ nic_names = <<>>
  /\ pip_names = <<>>
  /\ cursor = 1

Next ==
  \/ RgInvoke
  \/ RgFetchDecide
  \/ RgForceDelete
  \/ RgCreateOrUpdate
  \/ RgDelete
  \/ NicInvoke
  \/ NicResolve
  \/ NicFetchDecide
  \/ NicCreateOrUpdate
  \/ NicDelete
  \/ VmInvoke
  \/ VmResolve
  \/ VmFetchDecide
  \/ VmDeleteCapture
  \/ VmDeleteVm
  \/ VmDeleteStorage
  \/ VmDeleteNic
  \/ VmDeletePip
  \/ VmCreate
  \/ VmDeleteCompletes

Spec == Init /\ [][Next]_vars

\* the steps of an invocation that is under way; each provider call in them
\* returns or raises and each poll completes, so a step that is enabled is
\* eventually taken
InvocationStep ==
  \/ RgFetchDecide \/ RgForceDelete \/ RgCreateOrUpdate \/ RgDelete
  \/ NicResolve \/ NicFetchDecide \/ NicCreateOrUpdate \/ NicDelete
  \/ VmResolve \/ VmFetchDecide \/ VmDeleteCapture \/ VmDeleteVm
  \/ VmDeleteStorage \/ VmDeleteNic \/ VmDeletePip \/ VmCreate

\* The arguments and provider states explored for termination: those that
\* select the paths of an invocation (state, force, check mode, the deletion
\* flags, the named references, present and missing resources); the values
\* that are only compared or passed on are held at one or two choices.
LiveArgs ==
  CASE module = "resourcegroup" -> args.tags \in {"None", "{a:1}"}
    [] module = "networkinterface" ->
         /\ args.tags \in {"None", "{a:1}"}
         /\ args.private_ip_address = "None"
    [] OTHER ->
         /\ args.vm_size = "Standard_A0"
         /\ args.image_version = "latest"
LiveInit ==
  /\ Init
  /\ module = "virtualmachine"
     => /\ image_versions = <<"1", "2">>
        \* no interface holds a public IP, only the first does, or all do
        /\ \/ \A n \in NicIds \ {1} : nics[n].public_ip = NoId
           \/ \A n \in NicIds : nics[n].public_ip /= NoId

LiveSpec == LiveInit /\ [][Next /\ LiveArgs']_vars /\ WF_vars(InvocationStep)

\* ======================================================================
\* Properties
\* ======================================================================
Invoked == pc /= "idle"
Returned == pc = "done"
Failed == pc \in FailedStates
NonCheckRun == Invoked /\ ~args.check_mode
HasForce == module \in {"resourcegroup", "virtualmachine"}
\* the provider answered the get of the target truthfully
Found == fetched = "found"
NotFound == fetched = "not_found"
CallIdx(c) == {i \in 1..Len(calls) : calls[i] = c}
DeleteTarget(kind) == Call("delete", kind, NoId)
TargetKind ==
  CASE module = "resourcegroup" -> "resource_group"
    [] module = "networkinterface" -> "network_interface"
    [] OTHER -> "virtual_machine"
ProviderTarget ==
  CASE module = "resourcegroup" -> resource_group
    [] module = "networkinterface" -> network_interface
    [] OTHER -> virtual_machine

\* C1: idempotence, for the network interface and the virtual machine (whose
\* apply steps do not depend on how the SDK object answers a subscript).
\* When an invocation without force has returned with changed=true in
\* non-check mode and the same arguments are reconciled again with no external
\* change (both gets of the target answered truthfully), the second
\* invocation that returns reports changed=false.
C1_Idempotence ==
  (/\ module \in {"networkinterface", "virtualmachine"}
   /\ Returned /\ NonCheckRun
   /\ ~(HasForce /\ args.force)
   /\ prev.ran /\ prev.ok /\ prev.changed /\ ~prev.check_mode
   /\ prev.fetched \in {"found", "not_found"}
   /\ fetched \in {"found", "not_found"})
  => ~results.changed

\* C2: dry-run purity.  An invocation with check mode set has issued no
\* create-or-update and no delete, of the target or of any other resource, at
\* any point of it.
C2_DryRunPure ==
  (Invoked /\ args.check_mode) => Mutations(calls) = {}

\* a check-mode invocation that returned changed=true for a present/started
\* state and one for state absent on a found resource
C2_Witness ==
  /\ Returned /\ args.check_mode /\ results.changed
  /\ Found /\ args.state = "absent"

\* C3: tag replacement.  For a resource group or network interface that
\* exists with tags {a:1}, a non-check-mode invocation with state=present and
\* an empty or absent desired tag set, none of whose provider calls raises,
\* returns with changed=true and leaves the resource at the provider with
\* empty tags.
C3_TagReplacement ==
  (/\ module \in {"resourcegroup", "networkinterface"}
   /\ (Returned \/ Failed) /\ pc /= FailedProvider
   /\ NonCheckRun /\ Found
   /\ args.state = "present"
   /\ observed.tags = "{a:1}"
   /\ ~Truthy(args.tags)
   /\ module = "resourcegroup" => args.location = observed.location)
  => (Returned /\ results.changed /\ ~Truthy(ProviderTarget.tags))

\* C4: force-flag dominance.  For the resource group (state present) and the
\* virtual machine (state started), when the resource is found, force is true
\* and the decision step has completed, changed=true is reported whatever
\* the observed and desired field values are.
C4_ForceDominance ==
  (/\ HasForce /\ decided /\ Found
   /\ args.force
   /\ args.state = (IF module = "resourcegroup" THEN "present" ELSE "started"))
  => results.changed

\* a forced resource-group invocation whose desired tags and location equal
\* the observed ones has completed its decision
C4_Witness ==
  /\ module = "resourcegroup" /\ decided /\ Found
  /\ args.force /\ args.state = "present"
  /\ observed.tags = args.tags /\ observed.location = args.location
  /\ results.changed

\* C5: cascade ordering.  In every teardown of a virtual machine, each delete
\* call for a dependent resource (network interface, public IP, disk blob) is
\* preceded in the invocation by the delete call for the virtual machine.
DependentKinds == {"network_interface", "public_ip", "blob"}
DependentDeletes ==
  {i \in 1..Len(calls) : calls[i].op = "delete" /\ calls[i].kind \in DependentKinds}
C5_VmDeletedFirst ==
  module = "virtualmachine" =>
    \A i \in DependentDeletes :
      \E j \in CallIdx(DeleteTarget("virtual_machine")) : j < i

\* a teardown has deleted the machine and then a network interface
C5_Witness ==
  /\ module = "virtualmachine"
  /\ DependentDeletes /= {}
  /\ CallIdx(DeleteTarget("virtual_machine")) /= {}

\* C6: capture before delete.  In a teardown with delete_network_interfaces
\* and delete_public_ips both set, once the delete of the machine has been
\* issued the interface names are those of the fetched machine, each of them
\* was read from the provider after the fetch of the machine and before the
\* delete of the machine, the public IP names are those attached to these
\* interfaces, and every public IP delete comes after the machine delete and
\* names a captured public IP.
C6_CaptureBeforeDelete ==
  (/\ module = "virtualmachine"
   /\ args.delete_network_interfaces /\ args.delete_public_ips
   /\ CallIdx(DeleteTarget("virtual_machine")) /= {})
  => \A k \in CallIdx(DeleteTarget("virtual_machine")) :
       /\ pc \in {"vm_delete_storage", "vm_delete_nics", "vm_delete_pips"}
            => SeqRange(nic_names) = observed.network_interfaces
       /\ \A n \in SeqRange(nic_names) :
            \E j \in CallIdx(Call("get", "network_interface", n)) :
              /\ j < k
              /\ \E f \in CallIdx(Call("get", "virtual_machine", NoId)) : f < j
       /\ SeqRange(pip_names) =
            {nics[n].public_ip : n \in SeqRange(nic_names)} \ {NoId}
       /\ \A i \in 1..Len(calls) :
            (calls[i].op = "delete" /\ calls[i].kind = "public_ip")
              => (k < i /\ calls[i].name \in SeqRange(pip_names))

\* a teardown with both flags has deleted a captured public IP
C6_Witness ==
  /\ module = "virtualmachine"
  /\ args.delete_network_interfaces /\ args.delete_public_ips
  /\ \E i \in 1..Len(calls) : calls[i].op = "delete" /\ calls[i].kind = "public_ip"

\* C7: deleting an existing virtual machine.  When the machine is found and
\* the desired state is absent, a non-check-mode invocation that returns has
\* reported changed=true, has issued the delete of the machine and returns
\* the result "Deleted".
C7_VmAbsentDeletes ==
  (/\ module = "virtualmachine"
   /\ Returned /\ NonCheckRun /\ Found
   /\ args.state = "absent")
  => /\ results.changed
     /\ CallIdx(DeleteTarget("virtual_machine")) /= {}
     /\ results.results.repr = "Deleted"

\* C8: deleting an existing network interface or resource group.  When the
\* resource is found and the desired state is absent, a non-check-mode
\* invocation reports changed=true and issues no mutation other than one
\* delete of that resource; when it returns, that delete has been issued and
\* has completed (the resource is gone) and the result is "Deleted".
C8_DeleteExisting ==
  (/\ module \in {"resourcegroup", "networkinterface"}
   /\ decided /\ NonCheckRun /\ Found
   /\ args.state = "absent")
  => /\ results.changed
     /\ Mutations(calls) \subseteq CallIdx(DeleteTarget(TargetKind))
     /\ Cardinality(Mutations(calls)) <= 1
     /\ Returned => /\ Cardinality(Mutations(calls)) = 1
                    /\ results.results.repr = "Deleted"
                    /\ ~ProviderTarget.exists

\* an existing network interface has been deleted by a returned invocation
C8_Witness ==
  /\ module = "networkinterface"
  /\ Returned /\ NonCheckRun /\ Found /\ args.state = "absent"
  /\ results.results.repr = "Deleted"

\* C9: absence stability.  When the target is not found and the desired
\* state is absent (or stopped, for the virtual machine), the invocation
\* reports changed=false and issues no provider mutation, whatever the other
\* arguments are.
C9_AbsenceStable ==
  (/\ decided /\ NotFound
   /\ args.state \in {"absent", "stopped"})
  => (~results.changed /\ Mutations(calls) = {} /\ Returned)

\* a forced, non-check-mode invocation with tags found nothing to delete
C9_Witness ==
  /\ module = "resourcegroup"
  /\ Returned /\ NonCheckRun /\ NotFound
  /\ args.state = "absent" /\ args.force /\ Truthy(args.tags)

\* C10: immutable resource-group location.  When the resource group is found
\* and a desired location is given that differs from the observed one, an
\* invocation with state=present has failed and has issued no provider
\* mutation, whatever force, tags and check mode are.
C10_LocationImmutable ==
  (/\ module = "resourcegroup"
   /\ Invoked /\ Found
   /\ args.state = "present"
   /\ Truthy(args.location) /\ args.location /= observed.location)
  => (pc = FailedPrecondition /\ Mutations(calls) = {} /\ resource_group = observed)

\* a forced non-check-mode invocation with changed tags failed on the location
C10_Witness ==
  /\ module = "resourcegroup"
  /\ pc = FailedPrecondition /\ Found /\ args.state = "present"
  /\ Truthy(args.location) /\ args.location /= observed.location
  /\ args.force /\ ~args.check_mode /\ args.tags /= observed.tags

CreateTarget(kind) == Call("create_or_update", kind, NoId)

\* C11: creating a network interface.  When the interface is not found and
\* the desired state is present, a non-check-mode invocation that has decided
\* reports changed=true and issues no mutation other than one create-or-update
\* of the interface; when it has returned (every named reference resolved),
\* exactly one create-or-update was submitted, the stored interface carries
\* the requested subnet, security group and public IP, and the returned
\* resource names the requested public IP.
C11_NicCreate ==
  (/\ module = "networkinterface"
   /\ decided /\ NonCheckRun /\ NotFound /\ args.state = "present")
  => /\ results.changed
     /\ Mutations(calls) \subseteq CallIdx(CreateTarget("network_interface"))
     /\ Cardinality(Mutations(calls)) <= 1
     /\ Returned =>
          /\ Cardinality(Mutations(calls)) = 1
          /\ network_interface.exists
          /\ network_interface.subnet = args.subnet_name
          /\ network_interface.network_security_group = args.security_group_name
          /\ network_interface.public_ip_address = args.public_ip_address_name
          /\ results.results.repr = "dict"
          /\ results.results.body.public_ip_address = args.public_ip_address_name

C11_Witness ==
  /\ module = "networkinterface"
  /\ Returned /\ NonCheckRun /\ NotFound /\ args.state = "present"
  /\ args.public_ip_address_name = 1 /\ args.subnet_name = 2
  /\ results.results.body.public_ip_address = 1
  /\ Cardinality(Mutations(calls)) = 1

\* the target existed when it was fetched: it was returned, or the get
\* failed with another error while the provider holds it (with state absent
\* such an invocation changes nothing afterwards)
TargetExisted ==
  \/ Found
  \/ fetched = "cloud_error" /\ ProviderTarget.exists

\* C12: for every module, when the desired state is absent and the decision
\* step has completed, changed=false holds exactly when the target did not
\* exist: an existing resource that is desired absent never yields
\* changed=false.
C12_AbsentChangedIffExists ==
  (decided /\ args.state = "absent")
  => (~results.changed <=> ~TargetExisted)

\* C13: when the get of the target failed with a provider error that is not
\* the not-found signal, the invocation is in a failed state, has reported no
\* change and has issued no mutation.
C13_FetchErrorFatal ==
  (Invoked /\ fetched = "cloud_error")
  => (Failed /\ ~results.changed /\ Mutations(calls) = {})

\* a reference named by the desired state of the network interface is
\* missing at the provider
NicUnresolvable ==
  /\ module = "networkinterface"
  /\ args.state = "present"
  /\ \/ args.subnet_name \notin subnets
     \/ args.public_ip_address_name /= NoId /\ args.public_ip_address_name \notin public_ips
     \/ args.security_group_name /= NoId /\ args.security_group_name \notin security_groups

\* a reference named by the desired state of the virtual machine is missing:
\* an interface (one this invocation did not delete itself), the image
\* version, or the storage account
VmUnresolvable ==
  /\ module = "virtualmachine"
  /\ args.state = "started"
  /\ \/ \E n \in args.network_interface_names :
          ~nics[n].exists /\ CallIdx(Call("delete", "network_interface", n)) = {}
     \/ image_versions = <<>>
     \/ args.image_version /= "latest" /\ args.image_version \notin SeqRange(image_versions)
     \/ ~storage_account

\* C14: with state present (network interface) or started (virtual machine),
\* when a reference the desired state names cannot be resolved, the invocation
\* has failed once its resolution step is over, and it has issued no mutation.
C14_UnresolvableFatal ==
  (/\ Invoked /\ pc \notin {"nic_resolve", "vm_resolve"}
   /\ NicUnresolvable \/ VmUnresolvable)
  => (Failed /\ Mutations(calls) = {})

C14_Witness ==
  /\ module = "networkinterface"
  /\ pc = FailedPrecondition
  /\ NAME_PATTERN_match(args.name)
  /\ args.subnet_name = 1 /\ args.security_group_name = 1
  /\ args.public_ip_address_name = 2 /\ 2 \notin public_ips
  /\ ~args.check_mode /\ ~network_interface.exists

\* C15: with state started, when the requested size is not among the sizes
\* the provider lists for the location, the invocation has failed once its
\* resolution step is over, the machine was not fetched and no
\* create-or-update of the machine was submitted.
C15_VmSizeFatal ==
  (/\ module = "virtualmachine"
   /\ Invoked /\ pc /= "vm_resolve"
   /\ args.state = "started" /\ args.vm_size \notin VmSizes)
  => (/\ Failed
      /\ fetched = "none"
      /\ CallIdx(CreateTarget("virtual_machine")) = {})

\* the number a version name stands for, and the highest listed version
VersionNumber(v) ==
  CASE v = "1" -> 1
    [] v = "2" -> 2
    [] v = "3" -> 3
HighestVersion(versions) ==
  CHOOSE v \in SeqRange(versions) :
    \A w \in SeqRange(versions) : VersionNumber(w) <= VersionNumber(v)

\* C16: with state started and image version "latest", the version of the
\* machine a returned non-check-mode invocation has created is the highest
\* version the provider lists, never the literal "latest"; when the list is
\* empty or does not hold the concrete version asked for, the invocation has
\* failed once its resolution step is over and has issued no mutation.
C16_ImageVersionPinned ==
  (module = "virtualmachine" /\ Invoked /\ args.state = "started")
  => /\ (Returned /\ NonCheckRun /\ results.changed /\ args.image_version = "latest")
          => /\ virtual_machine.image_version /= "latest"
             /\ virtual_machine.image_version = HighestVersion(image_versions)
     /\ (/\ pc /= "vm_resolve"
         /\ \/ image_versions = <<>>
            \/ args.image_version /= "latest"
                 /\ args.image_version \notin SeqRange(image_versions))
          => (Failed /\ Mutations(calls) = {})

\* C17: dry run and real decision.  When a check-mode invocation is followed
\* by a non-check-mode invocation of the same desired state on the same
\* provider state, with the same truthful answer to the get of the target and
\* no provider call raising in either: the non-check-mode invocation completes
\* its decision step only if the dry run completed it, with the same changed
\* flag; and it fails on a precondition, with nothing applied, only if the dry
\* run failed.
C17_DryRunEqualsDecision ==
  (/\ prev.ran /\ prev.check_mode /\ NonCheckRun
   /\ prev.pc /= FailedProvider /\ pc /= FailedProvider
   /\ fetched = prev.fetched /\ fetched /= "cloud_error")
  => /\ decided => (prev.decided /\ results.changed = prev.changed)
     /\ ~prev.ok => ~decided
     /\ (pc = FailedPrecondition /\ Mutations(calls) = {}) => ~prev.ok

\* the name format in words: starts with a letter, ends with a letter or a
\* digit, letters, digits and hyphens in between, at least three characters
UpperLetters == {"A","B","C","D","E","F","G","H","I","J","K","L","M",
                 "N","O","P","Q","R","S","T","U","V","W","X","Y","Z"}
NameWellFormed(s) ==
  /\ Len(s) >= 3
  /\ s[1] \in LowerLetters \cup UpperLetters
  /\ s[Len(s)] \in LowerLetters \cup UpperLetters \cup Digits
  /\ \A i \in 2..(Len(s) - 1) : s[i] \in LowerLetters \cup UpperLetters \cup Digits \cup {"-"}

\* C18: a network-interface invocation whose name does not have the name
\* format has failed once its first step is over, for state present and for
\* state absent alike: the interface was not fetched and no mutation was
\* issued.
C18_NameFormat ==
  (/\ module = "networkinterface"
   /\ Invoked /\ pc /= "nic_resolve"
   /\ ~NameWellFormed(args.name))
  => (/\ Failed
      /\ fetched = "none"
      /\ CallIdx(Call("get", "network_interface", NoId)) = {}
      /\ Mutations(calls) = {})

C18_Witness ==
  /\ module = "networkinterface"
  /\ pc = FailedPrecondition
  /\ args.name = <<"n", "i", "-">>
  /\ args.state = "absent" /\ ~args.check_mode
  /\ network_interface.exists

\* the value a field has after an update: the desired one when the desired
\* state gives one, else the observed one
Overlaid(given, desired, seen) == IF given THEN desired ELSE seen

\* C19: update overlay.  When a non-check-mode invocation without force found
\* the resource, decided changed=true for state present and has returned, the
\* resource it submitted (and the provider stored) has the desired value in
\* every field of the change set (tags, private IP address, allocation
\* method, public IP) and the observed value in every other field (location,
\* subnet, security group), for the network interface and the resource group.
C19_UpdateOverlay ==
  (/\ module \in {"resourcegroup", "networkinterface"}
   /\ Returned /\ NonCheckRun /\ Found
   /\ args.state = "present" /\ results.changed
   /\ module = "resourcegroup" => ~args.force)
  => IF module = "resourcegroup"
     THEN /\ resource_group.tags = args.tags
          /\ resource_group.location = observed.location
     ELSE /\ network_interface.tags =
               Overlaid(Truthy(args.tags), args.tags, observed.tags)
          /\ network_interface.private_ip_address =
               Overlaid(Truthy(args.private_ip_address), args.private_ip_address,
                        observed.private_ip_address)
          /\ network_interface.private_ip_allocation_method =
               args.private_ip_allocation_method
          /\ network_interface.public_ip_address =
               Overlaid(args.public_ip_address_name /= NoId, args.public_ip_address_name,
                        observed.public_ip_address)
          /\ network_interface.location = observed.location
          /\ network_interface.subnet = observed.subnet
          /\ network_interface.network_security_group = observed.network_security_group

\* C20: create plan on not found.  When the target is not found and the
\* desired state is present (resource group) or started (virtual machine), a
\* non-check-mode invocation that has decided issues no delete call, with
\* force as without, and no mutation other than one create-or-update of the
\* target; when it has returned it has issued exactly that one.
C20_CreateOnNotFound ==
  (/\ module \in {"resourcegroup", "virtualmachine"}
   /\ decided /\ NonCheckRun /\ NotFound
   /\ args.state = (IF module = "resourcegroup" THEN "present" ELSE "started"))
  => /\ \A i \in 1..Len(calls) : calls[i].op /= "delete"
     /\ Mutations(calls) \subseteq CallIdx(CreateTarget(TargetKind))
     /\ Cardinality(Mutations(calls)) <= 1
     /\ Returned => Cardinality(Mutations(calls)) = 1

\* the target the desired state describes, as the provider stores it
DesiredTarget ==
  IF module = "resourcegroup"
  THEN [exists |-> TRUE, location |-> args.location, tags |-> args.tags]
  ELSE [exists |-> TRUE, network_interfaces |-> args.network_interface_names,
        vm_size |-> args.vm_size,
        image_version |-> IF args.image_version = "latest"
                          THEN virtual_machine.image_version
                          ELSE args.image_version]

\* C21: forced delete-then-recreate.  With force on a found resource
\* (resource group present, virtual machine started) in non-check mode, once
\* the create-or-update of the target has been submitted: a delete of the
\* target was submitted before it, no delete of the target is still running
\* at the provider, and when the invocation has returned the stored target is
\* the one the desired state describes.
C21_ForcedRecreateOrder ==
  (/\ HasForce /\ NonCheckRun /\ Found /\ args.force
   /\ args.state = (IF module = "resourcegroup" THEN "present" ELSE "started")
   /\ CallIdx(CreateTarget(TargetKind)) /= {})
  => /\ \A i \in CallIdx(CreateTarget(TargetKind)) :
          \E k \in CallIdx(DeleteTarget(TargetKind)) : k < i
     /\ ~vm_delete_pending
     /\ Returned => ProviderTarget = DesiredTarget

\* C22: long-running operations block.  While the delete of the virtual
\* machine that an invocation submitted is still running at the provider, the
\* invocation has issued no later provider call and has not returned.
C22_OperationsBlock ==
  (/\ module = "virtualmachine"
   /\ CallIdx(DeleteTarget("virtual_machine")) /= {}
   /\ vm_delete_pending)
  => (/\ calls[Len(calls)] = DeleteTarget("virtual_machine")
      /\ ~Returned)

\* the last provider call of the invocation
LastCall == calls[Len(calls)]

\* a step of the cascade has failed: a delete of an interface or a public IP
\* was refused, or the disk-blob step raised right after the machine delete
DependentDeleteFailed ==
  /\ module = "virtualmachine" /\ Failed /\ calls /= <<>>
  /\ \/ LastCall.op = "delete" /\ LastCall.kind \in DependentKinds
     \/ pc = FailedException /\ LastCall = DeleteTarget("virtual_machine")

C24_ApplyFatalNoRollback ==
  (/\ Invoked /\ pc = FailedProvider
   /\ Mutations(calls) /= {}
   /\ fetched \in {"found", "not_found"})
  => /\ LastCall.op \in MutatingOps
     /\ CallIdx(LastCall) = {Len(calls)}
     /\ module = "resourcegroup" =>
          resource_group = (IF \E k \in CallIdx(DeleteTarget("resource_group")) : k < Len(calls)
                            THEN NoResourceGroup ELSE observed)
     /\ module = "networkinterface" => network_interface = observed
     /\ module = "virtualmachine" =>
          \A i \in 1..(Len(calls) - 1) :
             /\ (calls[i].op = "delete" /\ calls[i].kind = "network_interface")
                  => ~nics[calls[i].name].exists
             /\ (calls[i].op = "delete" /\ calls[i].kind = "public_ip")
                  => calls[i].name \notin public_ips

C24_Witness ==
  /\ module = "resourcegroup"
  /\ pc = FailedProvider /\ Found /\ args.force /\ ~args.check_mode
  /\ args.state = "present"
  /\ Len(calls) = 3
  /\ calls[2] = DeleteTarget("resource_group")
  /\ calls[3] = CreateTarget("resource_group")
  /\ observed.exists /\ ~resource_group.exists

\* the kinds of dependent resource of which the invocation issued a delete
DeletedKinds == {calls[i].kind : i \in DependentDeletes}

\* C25: cascade opt-in per kind.  A virtual-machine invocation has issued a
\* delete of a disk blob only with delete_virtual_storage set, of a network
\* interface only with delete_network_interfaces set and of a public IP only
\* with delete_public_ips set; with the three flags false its only mutations
\* are the delete of the machine and the create-or-update that follows it.
C25_CascadeOptIn ==
  module = "virtualmachine"
  => /\ "blob" \in DeletedKinds => args.delete_virtual_storage
     /\ "network_interface" \in DeletedKinds => args.delete_network_interfaces
     /\ "public_ip" \in DeletedKinds => args.delete_public_ips
     /\ (/\ ~args.delete_virtual_storage
         /\ ~args.delete_network_interfaces
         /\ ~args.delete_public_ips)
          => Mutations(calls) \subseteq
               CallIdx(DeleteTarget("virtual_machine")) \cup CallIdx(CreateTarget("virtual_machine"))

C25_Witness ==
  /\ module = "virtualmachine"
  /\ args.delete_network_interfaces /\ ~args.delete_public_ips /\ ~args.delete_virtual_storage
  /\ DeletedKinds = {"network_interface"}
  /\ pc = "vm_create"
  /\ \E n \in SeqRange(nic_names) : nics[n].public_ip /= NoId /\ nics[n].public_ip \in public_ips

\* C26: public IPs follow the interfaces.  In a virtual-machine invocation
\* public IP names are captured only with delete_network_interfaces and
\* delete_public_ips both set, and no public IP is deleted with
\* delete_public_ips alone; every delete of a public IP comes after a
\* completed delete of every captured interface; and the disk-blob step comes
\* before every delete of an interface or a public IP.
C26_PublicIpsAfterNics ==
  module = "virtualmachine"
  => /\ pip_names /= <<>> => (args.delete_network_interfaces /\ args.delete_public_ips)
     /\ (args.delete_public_ips /\ ~args.delete_network_interfaces)
          => "public_ip" \notin DeletedKinds
     /\ \A i \in DependentDeletes :
          calls[i].kind = "public_ip" =>
            \A n \in SeqRange(nic_names) :
               /\ \E k \in CallIdx(Call("delete", "network_interface", n)) : k < i
               /\ ~nics[n].exists
     /\ pc = "vm_delete_storage" => DependentDeletes = {}
     /\ \A i, k \in DependentDeletes :
          (calls[i].kind = "blob" /\ calls[k].kind /= "blob") => i < k

C26_Witness ==
  /\ module = "virtualmachine"
  /\ args.delete_network_interfaces /\ args.delete_public_ips
  /\ Len(nic_names) >= 2
  /\ "public_ip" \in DeletedKinds
  /\ pc = "vm_create"

GetTarget == Call("get", TargetKind, NoId)

\* the changed flag as a function of what the get of the target answered and
\* of the arguments
DecisionOf ==
  IF fetched /= "found" THEN args.state \in {"present", "started"}
  ELSE CASE module = "resourcegroup" -> RgDecideFound(observed, args).changed
         [] module = "networkinterface" -> NicDecideFound(observed, args).changed
         [] OTHER -> VmDecideFound(args)

\* C27 (amended): fresh observation first.  In every invocation the target is
\* fetched at most once; once the invocation has decided or has issued a
\* mutation it was fetched exactly once and that get precedes every mutation
\* (an invocation that fails on its name or on resolving a reference ends
\* before the fetch); and the
\* changed flag is the function of the fetched state and the arguments,
\* whatever the earlier invocations did.
C27_FreshObservation ==
  Invoked
  => /\ Cardinality(CallIdx(GetTarget)) <= 1
     /\ (decided \/ Mutations(calls) /= {})
          => /\ Cardinality(CallIdx(GetTarget)) = 1
             /\ \A i \in Mutations(calls) : \E k \in CallIdx(GetTarget) : k < i
     /\ decided => results.changed = DecisionOf

\* C27 as stated: every invocation that has ended, whether it returned or
\* failed, fetched the target exactly once.
C27_FetchedExactlyOnce ==
  (Invoked /\ (Returned \/ Failed)) => Cardinality(CallIdx(GetTarget)) = 1

C27_Witness ==
  /\ module = "networkinterface"
  /\ runs = 2 /\ decided /\ NonCheckRun
  /\ prev.ran /\ prev.ok /\ prev.changed /\ ~prev.check_mode
  /\ prev.fetched = "not_found" /\ Found
  /\ ~results.changed

\* C28: referenced resources are left unchanged.  Every mutation of a
\* network-interface invocation is on the interface itself and every mutation
\* of a resource-group invocation is on the resource group; a mutation of a
\* virtual-machine invocation is either on the machine itself or the delete of
\* an interface, public IP or blob that follows the delete of the machine, the
\* interface being one the fetched machine lists and the public IP being one
\* read from such an interface.
C28_ReferencesUntouched ==
  /\ module \in {"resourcegroup", "networkinterface"}
       => \A i \in Mutations(calls) : calls[i].kind = TargetKind /\ calls[i].name = NoId
  /\ module = "virtualmachine"
       => \A i \in Mutations(calls) :
            \/ calls[i].kind = "virtual_machine" /\ calls[i].name = NoId
            \/ /\ calls[i].op = "delete"
               /\ calls[i].kind \in DependentKinds
               /\ \E k \in CallIdx(DeleteTarget("virtual_machine")) : k < i
               /\ calls[i].kind = "network_interface"
                    => calls[i].name \in observed.network_interfaces
               /\ calls[i].kind = "public_ip"
                    => \E n \in observed.network_interfaces :
                         /\ nics[n].public_ip = calls[i].name
                         /\ \E k \in CallIdx(Call("get", "network_interface", n)) : k < i

C28_Witness ==
  /\ module = "virtualmachine"
  /\ Returned
  /\ {"network_interface", "public_ip"} \subseteq DeletedKinds
  /\ observed.network_interfaces /= NicIds
  /\ \E n \in NicIds \ observed.network_interfaces : nics[n].exists

\* the compared properties of the fetched interface already have the desired
\* values (a private IP address that is not given desires nothing)
NicComparedEqual ==
  /\ args.tags = observed.tags
  /\ args.private_ip_address \in {"None", observed.private_ip_address}
  /\ args.private_ip_allocation_method = observed.private_ip_allocation_method
  /\ args.public_ip_address_name = observed.public_ip_address
NicAssociationDiffers ==
  \/ args.subnet_name /= observed.subnet
  \/ args.security_group_name /= observed.network_security_group

\* C29: subnet and security-group differences are never a change.  For an
\* interface that was found, with state present and with tags, private IP
\* address, allocation method and public IP equal to the desired ones, a
\* desired subnet or security group other than the observed one gives
\* changed=false, no mutation, and the stored interface keeps its subnet and
\* security group.
C29_AssociationsNeverChange ==
  (/\ module = "networkinterface"
   /\ decided /\ Found
   /\ args.state = "present"
   /\ NicComparedEqual
   /\ NicAssociationDiffers)
  => /\ ~results.changed
     /\ Mutations(calls) = {}
     /\ network_interface = observed

C29_Witness ==
  /\ module = "networkinterface"
  /\ Returned /\ decided /\ Found /\ NonCheckRun
  /\ args.state = "present"
  /\ NicComparedEqual
  /\ args.subnet_name /= observed.subnet
  /\ ~results.changed

\* C30: location is required only when creating a resource group.  Once the
\* get of a resource-group invocation with state present, no force, no location
\* and tags equal to the observed tags has found the group, the invocation
\* has returned with changed=false and without a mutation.
C30_LocationOnlyForCreate ==
  (/\ module = "resourcegroup"
   /\ Invoked /\ pc /= "rg_fetch"
   /\ Found
   /\ args.state = "present" /\ ~args.force
   /\ args.location = "None"
   /\ args.tags = observed.tags)
  => /\ Returned
     /\ ~results.changed
     /\ Mutations(calls) = {}

\* C31: missing location on create.  In a non-check-mode resource-group
\* invocation with state present and no location whose get answered not found,
\* whatever the force flag, no mutation call is ever issued, and once the
\* invocation has left the fetch and any step that follows it, it has ended
\* in the fatal precondition error.
C31_MissingLocationFatal ==
  (/\ module = "resourcegroup"
   /\ NonCheckRun /\ pc /= "rg_fetch"
   /\ NotFound
   /\ args.state = "present"
   /\ args.location = "None")
  => /\ Mutations(calls) = {}
     /\ ~Returned
     /\ Failed => pc = FailedPrecondition

\* the result a dry run on a found resource is to return: the fetched
\* resource as a dict with the desired value in each field of the change set
CheckModeResultRg ==
  LET d == resource_group_to_dict(observed) IN
  [d EXCEPT !.tags = Overlaid(args.state = "present", args.tags, @)]
CheckModeResultNic ==
  LET d == nic_to_dict(observed)
      p == args.state = "present"
  IN [d EXCEPT
        !.tags = Overlaid(p /\ Truthy(args.tags), args.tags, @),
        !.private_ip_address =
           Overlaid(p /\ Truthy(args.private_ip_address), args.private_ip_address, @),
        !.private_ip_allocation_method =
           Overlaid(p, args.private_ip_allocation_method, @),
        !.public_ip_address =
           Overlaid(p /\ args.public_ip_address_name /= NoId, args.public_ip_address_name, @)]
ObservedFields ==
  {"location", "tags", "private_ip_address", "private_ip_allocation_method",
   "public_ip_address", "subnet", "network_security_group"}
C32_RgPart ==
  /\ results.results.repr = "dict"
  /\ \A f \in {"location", "tags"} : results.results.body[f] = CheckModeResultRg[f]
C32_NicPart ==
  /\ results.results.repr = "dict"
  /\ \A f \in ObservedFields : results.results.body[f] = CheckModeResultNic[f]
C32_VmPart ==
  /\ results.results.repr = "dict"
  /\ results.results.body.network_interfaces = observed.network_interfaces

\* C32: check-mode result content.  A check-mode invocation that has returned
\* carries check_mode=true in its result; when the target was not found its
\* result is the empty dict; when it was found its result is the observed
\* resource with the desired values of the changed fields overlaid, in each
\* of the three modules.
C32_CheckModeResult ==
  (Returned /\ decided /\ args.check_mode)
  => /\ results.check_mode
     /\ fetched /= "found" => results.results = EmptyResult
     /\ Found => CASE module = "resourcegroup" -> C32_RgPart
                    [] module = "networkinterface" -> C32_NicPart
                    [] OTHER -> C32_VmPart

NamedReferences ==
  CASE module = "resourcegroup" -> 0
    [] module = "networkinterface" ->
         1 + (IF args.public_ip_address_name /= NoId THEN 1 ELSE 0)
           + (IF args.security_group_name /= NoId THEN 1 ELSE 0)
    [] OTHER -> Cardinality(args.network_interface_names)
CapturedDependents ==
  IF module = "virtualmachine" THEN Len(nic_names) + Len(pip_names) ELSE 0
\* the calls of an invocation: those on the target and its resource group,
\* one get per named reference, and a get and a delete per captured resource
CallBound ==
  (CASE module = "resourcegroup" -> 3
     [] module = "networkinterface" -> 5
     [] OTHER -> 7)
  + NamedReferences + 2 * CapturedDependents
Terminal == Returned \/ Failed

\* C33: termination.  With every provider call returning or raising and
\* every poll completing, an invocation that is under way reaches a terminal
\* state (returned or failed), and the number of provider calls it has issued
\* never exceeds a bound given by the named references and the captured
\* dependent resources.
C33_Termination ==
  /\ [](Invoked => Len(calls) <= CallBound)
  /\ (Invoked /\ ~Terminal) ~> Terminal

C33_Witness ==
  /\ module = "virtualmachine"
  /\ Terminal /\ NonCheckRun
  /\ Len(nic_names) >= 2 /\ Len(pip_names) >= 1
  /\ "public_ip" \in DeletedKinds
  /\ Len(calls) >= 8

\* C34: the changed flag is truthful.  In every module, a non-check-mode
\* invocation that has returned reports changed=true exactly when it issued
\* at least one create-or-update or delete call.
C34_ChangedTruthful ==
  (Returned /\ NonCheckRun)
  => (results.changed <=> Mutations(calls) /= {})

====
